---- MODULE Spec2Model ----
(***************************************************************************)
(* The PPAPI C++ module shim of ppapi/cpp/module.cc: the browser-invoked   *)
(* PPP_Instance and PPP_Printing callbacks, the instance registry          *)
(* Module::current_instances_, the name-based interface lookup and         *)
(* Module::InternalInit.                                                   *)
(*                                                                         *)
(* Plugin code that the shim calls out to (Module::CreateInstance, the     *)
(* Instance destructor) may call back into the browser, which may re-enter *)
(* the shim.  Instance_New and Instance_Delete hold shim state across      *)
(* that callout, so each is modelled as a call step and a return step with *)
(* a frame on `stack` in between; nested callbacks run on top of it.  The  *)
(* forwarding callbacks do nothing after the forwarded method returns, so  *)
(* each is one step.  Module::Get() is a hook implemented elsewhere: its   *)
(* answer (NULL or the module) is an input of each callback.  Arguments    *)
(* that the callbacks only pass through (argc/argn/argv, events, rects,    *)
(* page ranges) are left out.                                              *)
(*                                                                         *)
(* Spec drives the PPP_Instance and PPP_Printing callbacks; SpecModule     *)
(* drives the Module methods while instances are created and deleted.      *)
(***************************************************************************)
EXTENDS Integers, Sequences, FiniteSets

\* ------------------------------------------------------------------ bounds
MaxObjects == 2
MaxDepth == 2
MaxFormats == 2

NULL == 0
\* The browser's instance handles: one, and another one.
Handles == {1, 2}
Objects == 1..MaxObjects

RECURSIVE SeqsUpTo(_, _)
SeqsUpTo(S, n) ==
  IF n = 0 THEN {<<>>}
  ELSE LET shorter == SeqsUpTo(S, n - 1)
       IN  shorter \cup {Append(s, x) : s \in shorter, x \in S}

\* --------------------------------------------------------- interface names
\* Interface names are C strings: sequences of characters.
PPP_INSTANCE_INTERFACE == <<1, 1>>
PPP_PRINTING_INTERFACE == <<1, 2>>
PPB_CORE_INTERFACE == <<2, 1>>
\* The names the browser and the plugin ask for: the three above, a proper
\* prefix and an extension of one of them, the empty name and an unknown one.
InterfaceNames ==
  { PPP_INSTANCE_INTERFACE, PPP_PRINTING_INTERFACE, PPB_CORE_INTERFACE,
    << >>, <<1>>, <<1, 1, 1>>, <<2, 2>> }

\* strncmp(a, b, strlen(a)): only the first strlen(a) characters compared.
RECURSIVE strcmp_Prefix(_, _)
strcmp_Prefix(a, b) ==
  IF a = <<>> THEN 0
  ELSE IF b = <<>> THEN 1
  ELSE IF Head(a) < Head(b) THEN -1
  ELSE IF Head(a) > Head(b) THEN 1
  ELSE strcmp_Prefix(Tail(a), Tail(b))

RECURSIVE strcmp(_, _)
strcmp(a, b) ==
  IF a = <<>> /\ b = <<>> THEN 0
  ELSE IF a = <<>> THEN -1
  ELSE IF b = <<>> THEN 1
  ELSE IF Head(a) < Head(b) THEN -1
  ELSE IF Head(a) > Head(b) THEN 1
  ELSE strcmp(Tail(a), Tail(b))

\* The two static function tables handed to the browser.
instance_interface ==
  << "Instance_New", "Instance_Delete", "Instance_Initialize",
     "Instance_HandleDocumentLoad", "Instance_HandleEvent",
     "Instance_GetInstanceObject", "Instance_ViewChanged" >>

printing_interface ==
  << "Printing_QuerySupportedFormats", "Printing_Begin",
     "Printing_PrintPages", "Printing_End" >>

\* What a returned interface pointer points at.
Deref(ptr) ==
  IF ptr = "&instance_interface" THEN instance_interface
  ELSE IF ptr = "&printing_interface" THEN printing_interface
  ELSE <<>>

\* The browser's PPB_GetInterface functions the module may be given: 1 knows
\* the core interface, 2 knows none.  Interface pointers are positive numbers.
BrowserFns == {1, 2}
BrowserLookup(fn, name) ==
  IF fn = 1 /\ name = PPB_CORE_INTERFACE THEN 11
  ELSE IF fn = 1 /\ name = <<2, 2>> THEN 12
  ELSE NULL

\* ------------------------------------------------------------ value types
\* pp::Var wraps a PP_Var; Var() is the default one.  Detach() hands the
\* PP_Var out.
DefaultVar == [var |-> "default", needs_release |-> FALSE]
Vars == {DefaultVar, [var |-> "object", needs_release |-> TRUE]}
Detach(v) == v.var

\* pp::Resource wraps a PP_Resource; Resource() holds the null resource.
DefaultResource == [pp_resource_ |-> 0]
Resources == {DefaultResource, [pp_resource_ |-> 5]}
pp_resource(r) == r.pp_resource_

PrintFormats == {1, 2}
\* What Module::QuerySupportedPrintOutputFormats may hand back: a NULL list,
\* or a list with a count of entries that may be read.
QueryResults ==
  {[null |-> TRUE, arr |-> <<>>, count |-> c] : c \in 0..1}
  \cup UNION {{[null |-> FALSE, arr |-> a, count |-> c] : c \in 0..Len(a)}
              : a \in SeqsUpTo(PrintFormats, MaxFormats)}

\* ------------------------------------------------------------------ state
VARIABLES
  pp_module_,             \* Module::pp_module_
  get_browser_interface_, \* Module::get_browser_interface_ (NULL or a fn)
  core_,                  \* Module::core_
  current_instances_,     \* Module::current_instances_: handle -> object
  objState,               \* each Instance object: "unborn", "live",
                          \*   "destroying" (in its destructor), "destroyed"
  destroyCount,           \* how many times `delete` ran on each object
  lastNew,                \* object of the latest successful Instance_New(h)
  stack,                  \* callbacks suspended in a plugin callout
  crashed,                \* the process died (call through a NULL pointer)
  ev                      \* the step just taken: callback, inputs, result

vars == << pp_module_, get_browser_interface_, core_,
           current_instances_, objState, destroyCount, lastNew, stack,
           crashed, ev >>

moduleVars == << pp_module_, get_browser_interface_, core_ >>
objVars == << objState, destroyCount >>

NoEv ==
  [op |-> "none", phase |-> "done", module |-> 0, h |-> 0, arg |-> 0, known |-> FALSE,
   reg0 |-> << >>, mod0 |-> << 0, 0, 0 >>, calls |-> << >>,
   mres |-> "void", ret |-> "void"]

\* The record of a step of callback `op` on handle h with input `arg`: the
\* plugin methods it invoked, what the last of them returned, and what the
\* callback returned.  `known`, `reg0` and `mod0` are taken before the step.
Ev(op, phase, module, h, arg, calls, mres, ret) ==
  [op |-> op, phase |-> phase, module |-> module, h |-> h, arg |-> arg,
   known |-> (module # NULL /\ h \in DOMAIN current_instances_),
   reg0 |-> current_instances_,
   mod0 |-> << pp_module_, get_browser_interface_, core_ >>,
   calls |-> calls, mres |-> mres, ret |-> ret]

Init ==
  /\ pp_module_ = NULL
  /\ get_browser_interface_ = NULL
  /\ core_ = NULL
  /\ current_instances_ = << >>
  /\ objState = [o \in Objects |-> "unborn"]
  /\ destroyCount = [o \in Objects |-> 0]
  /\ lastNew = [h \in Handles |-> NULL]
  /\ stack = << >>
  /\ crashed = FALSE
  /\ ev = NoEv

\* ------------------------------------------------------- std::map helpers
\* A map insert() that keeps an entry already there.
MapAssign_NoOverwrite(reg, h, obj) ==
  [k \in DOMAIN reg \cup {h} |-> IF k \in DOMAIN reg THEN reg[k] ELSE obj]

\* current_instances_[h] = obj
MapAssign(reg, h, obj) ==
  [k \in DOMAIN reg \cup {h} |-> IF k = h THEN obj ELSE reg[k]]

\* The entry is left in the map while the object is deleted.
MapErase_Skip(reg, h) == reg

\* clear() in place of erase(found).
MapErase_Clear(reg, h) == << >>

\* current_instances_.erase(found), found pointing at h's entry
MapErase(reg, h) == [k \in DOMAIN reg \ {h} |-> reg[k]]

\* A lookup that falls back to the first entry when the handle is not found.
InstanceForPPInstance_First(instance) ==
  IF instance \in DOMAIN current_instances_ THEN current_instances_[instance]
  ELSE IF current_instances_ = << >> THEN NULL
  ELSE current_instances_[CHOOSE k \in DOMAIN current_instances_ :
                             \A j \in DOMAIN current_instances_ : k <= j]

InstanceForPPInstance(instance) ==
  IF instance \notin DOMAIN current_instances_ THEN NULL
  ELSE current_instances_[instance]

\* ------------------------------------------------------------ step shapes
\* A callback that returns `ret` without calling into the plugin.
Done(op, module, h, arg, ret) ==
  /\ ev' = Ev(op, "done", module, h, arg, << >>, "void", ret)
  /\ UNCHANGED << moduleVars, current_instances_, objVars,
                  lastNew, stack, crashed >>

\* A callback that invokes method m on `instance`, which returns mres, and
\* then returns `ret`.
Forward(op, module, h, arg, instance, m, mres, ret) ==
  /\ ev' = Ev(op, "done", module, h, arg, << [obj |-> instance, m |-> m] >>, mres, ret)
  /\ UNCHANGED << moduleVars, current_instances_, objVars,
                  lastNew, stack, crashed >>

Frame(op, h, obj) == [op |-> op, h |-> h, obj |-> obj]
Top == stack[Len(stack)]
Pop == SubSeq(stack, 1, Len(stack) - 1)

\* ------------------------------------------------------------ environment
\* The browser calls into the shim from one thread: it makes a call, or
\* plugin code running inside a callout makes one, only after the step before
\* has handed over its result.
BrowserMayCall == ~crashed /\ ev = NoEv

\* The result of the last step is taken; the record of it is dropped.
TakeResult ==
  /\ ~crashed
  /\ ev # NoEv
  /\ ev' = NoEv
  /\ UNCHANGED << moduleVars, current_instances_, objVars,
                  lastNew, stack, crashed >>

\* Module::Get() is a hook the embedder implements: each callback asks it
\* once, and it answers NULL or the module.
TheModule == 1
ModuleGetResults == {NULL, TheModule}

\* Module::CreateInstance(h) is plugin code: it returns NULL or a newly
\* allocated Instance.
NewObject ==
  IF \E o \in Objects : objState[o] = "unborn"
  THEN {CHOOSE o \in Objects :
          /\ objState[o] = "unborn"
          /\ \A p \in Objects : objState[p] = "unborn" => o <= p}
  ELSE {}
CreateInstanceResults == {NULL} \cup NewObject

\* ------------------------------------------------- PPP_Instance callbacks
\* The NULL check on CreateInstance's result is missing.
NewRegisters_Always(obj) == TRUE

\* if (obj) { current_instances_[instance] = obj; return true; }
NewRegisters(obj) == obj # NULL

Instance_NewCall(module_singleton, instance) ==
  /\ BrowserMayCall
  /\ IF module_singleton = NULL
     THEN Done("Instance_New", module_singleton, instance, 0, FALSE)
     ELSE /\ Len(stack) < MaxDepth
          /\ stack' = Append(stack, Frame("Instance_New", instance, NULL))
          /\ ev' = Ev("Instance_New", "call", module_singleton, instance, 0,
                      << [obj |-> NULL, m |-> "CreateInstance"] >>,
                      "void", "void")
          /\ UNCHANGED << moduleVars, current_instances_, objVars,
                          lastNew, crashed >>

Instance_NewReturn ==
  /\ BrowserMayCall
  /\ stack # << >>
  /\ Top.op = "Instance_New"
  /\ \E obj \in CreateInstanceResults :
       LET instance == Top.h
           born == IF obj = NULL THEN objState
                   ELSE [objState EXCEPT ![obj] = "live"]
       IN  /\ objState' = born
           /\ IF NewRegisters(obj)
              THEN /\ current_instances_' =
                        MapAssign(current_instances_, instance, obj)
                   /\ lastNew' = [lastNew EXCEPT ![instance] = obj]
                   /\ ev' = Ev("Instance_New", "return", TheModule, instance, 0,
                               << [obj |-> NULL, m |-> "CreateInstance"] >>,
                               obj, TRUE)
              ELSE /\ UNCHANGED << current_instances_, lastNew >>
                   /\ ev' = Ev("Instance_New", "return", TheModule, instance, 0,
                               << [obj |-> NULL, m |-> "CreateInstance"] >>,
                               obj, FALSE)
  /\ stack' = Pop
  /\ UNCHANGED << moduleVars, destroyCount, crashed >>

\* `delete obj`: the destructor starts running on obj (delete NULL does
\* nothing).
StartDelete(obj) ==
  IF obj = NULL THEN UNCHANGED objVars
  ELSE /\ objState' = [objState EXCEPT ![obj] = "destroying"]
       /\ destroyCount' =
            [destroyCount EXCEPT ![obj] = IF @ < 2 THEN @ + 1 ELSE @]

Instance_DeleteCall(module_singleton, instance) ==
  /\ BrowserMayCall
  /\ IF module_singleton = NULL
     THEN Done("Instance_Delete", module_singleton, instance, 0, "void")
     ELSE IF instance \notin DOMAIN current_instances_
     THEN Done("Instance_Delete", module_singleton, instance, 0, "void")
     ELSE LET obj == current_instances_[instance]
          IN  /\ Len(stack) < MaxDepth
              /\ current_instances_' = MapErase(current_instances_, instance)
              /\ StartDelete(obj)
              /\ stack' = Append(stack, Frame("Instance_Delete", instance, obj))
              /\ ev' = Ev("Instance_Delete", "call", module_singleton, instance, 0,
                          << [obj |-> obj, m |-> "~Instance"] >>,
                          "void", "void")
              /\ UNCHANGED << moduleVars, lastNew, crashed >>

\* The destructor returns; Instance_Delete returns.
Instance_DeleteReturn ==
  /\ BrowserMayCall
  /\ stack # << >>
  /\ Top.op = "Instance_Delete"
  /\ objState' = IF Top.obj = NULL THEN objState
                 ELSE [objState EXCEPT ![Top.obj] = "destroyed"]
  /\ ev' = Ev("Instance_Delete", "return", TheModule, Top.h, 0,
              << [obj |-> Top.obj, m |-> "~Instance"] >>, "void", "void")
  /\ stack' = Pop
  /\ UNCHANGED << moduleVars, current_instances_, destroyCount,
                  lastNew, crashed >>

Instance_Initialize(module_singleton, pp_instance) ==
  /\ BrowserMayCall
  /\ IF module_singleton = NULL
     THEN Done("Instance_Initialize", module_singleton, pp_instance, 0, FALSE)
     ELSE LET instance == InstanceForPPInstance(pp_instance)
          IN  IF instance = NULL
              THEN Done("Instance_Initialize", module_singleton, pp_instance, 0, FALSE)
              ELSE \E r \in BOOLEAN :
                     Forward("Instance_Initialize", module_singleton, pp_instance, 0,
                             instance, "Init", r, r)

Instance_HandleDocumentLoad(module_singleton, pp_instance) ==
  /\ BrowserMayCall
  /\ IF module_singleton = NULL
     THEN Done("Instance_HandleDocumentLoad", module_singleton, pp_instance, 0, FALSE)
     ELSE LET instance == InstanceForPPInstance(pp_instance)
          IN  IF instance = NULL
              THEN Done("Instance_HandleDocumentLoad", module_singleton, pp_instance, 0, FALSE)
              ELSE \E r \in BOOLEAN :
                     Forward("Instance_HandleDocumentLoad", module_singleton, pp_instance, 0,
                             instance, "HandleDocumentLoad", r, r)

Instance_HandleEvent(module_singleton, pp_instance) ==
  /\ BrowserMayCall
  /\ IF module_singleton = NULL
     THEN Done("Instance_HandleEvent", module_singleton, pp_instance, 0, FALSE)
     ELSE LET instance == InstanceForPPInstance(pp_instance)
          IN  IF instance = NULL
              THEN Done("Instance_HandleEvent", module_singleton, pp_instance, 0, FALSE)
              ELSE \E r \in BOOLEAN :
                     Forward("Instance_HandleEvent", module_singleton, pp_instance, 0,
                             instance, "HandleEvent", r, r)

Instance_GetInstanceObject(module_singleton, pp_instance) ==
  /\ BrowserMayCall
  /\ IF module_singleton = NULL
     THEN Done("Instance_GetInstanceObject", module_singleton, pp_instance, 0,
               Detach(DefaultVar))
     ELSE LET instance == InstanceForPPInstance(pp_instance)
          IN  IF instance = NULL
              THEN Done("Instance_GetInstanceObject", module_singleton, pp_instance, 0,
                        Detach(DefaultVar))
              ELSE \E v \in Vars :
                     Forward("Instance_GetInstanceObject", module_singleton, pp_instance, 0,
                             instance, "GetInstanceObject", v, Detach(v))

Instance_ViewChanged(module_singleton, pp_instance) ==
  /\ BrowserMayCall
  /\ IF module_singleton = NULL
     THEN Done("Instance_ViewChanged", module_singleton, pp_instance, 0, "void")
     ELSE LET instance == InstanceForPPInstance(pp_instance)
          IN  IF instance = NULL
              THEN Done("Instance_ViewChanged", module_singleton, pp_instance, 0, "void")
              ELSE Forward("Instance_ViewChanged", module_singleton, pp_instance, 0,
                           instance, "ViewChanged", "void", "void")

\* ------------------------------------------------- PPP_Printing callbacks
\* A list as the callbacks hand it on: whether the pointer is NULL, and
\* the count.
ListHandle(q) == [null |-> q.null, count |-> q.count]

\* The requested format is one of the first q.count entries of the list.
Listed(q, format) ==
  ~q.null /\ \E i \in 1..q.count : q.arr[i] = format

\* The requested format occurs somewhere in the list.
InList(q, format) ==
  ~q.null /\ \E i \in 1..Len(q.arr) : q.arr[i] = format

\* *format_count holds count0 before the call; the result is the list
\* pointer returned and the count left in *format_count.
Printing_QuerySupportedFormats(module_singleton, count0, q) ==
  /\ BrowserMayCall
  /\ IF module_singleton = NULL
     THEN Done("Printing_QuerySupportedFormats", module_singleton, 0, count0,
               [null |-> TRUE, count |-> 0])
     ELSE /\ ev' = Ev("Printing_QuerySupportedFormats", "done",
                      module_singleton, 0, count0,
                      << [obj |-> NULL, m |-> "QuerySupportedPrintOutputFormats"] >>,
                      ListHandle(q), ListHandle(q))
          /\ UNCHANGED << moduleVars, current_instances_, objVars,
                          lastNew, stack, crashed >>

\* for (index = 0; index < format_count; index++)
\*   if (formats[index] == print_settings->format) return PrintBegin(...)
RECURSIVE FormatFoundFrom(_, _, _, _)
FormatFoundFrom(formats, format_count, format, index) ==
  IF ~(index < format_count) THEN FALSE
  ELSE IF formats[index + 1] = format THEN TRUE
  ELSE FormatFoundFrom(formats, format_count, format, index + 1)

\* The loop runs over the whole list, not over format_count entries.
FormatSupported_WholeList(formats, format_count, format) ==
  FormatFoundFrom(formats, Len(formats), format, 0)

FormatSupported(formats, format_count, format) ==
  FormatFoundFrom(formats, format_count, format, 0)

PrintBeginResults == {0, 3}

Printing_Begin(module_singleton, pp_instance, format, q) ==
  /\ BrowserMayCall
  /\ LET arg == [null |-> q.null, listed |-> Listed(q, format),
                 inList |-> InList(q, format)]
     IN
     IF module_singleton = NULL
     THEN Done("Printing_Begin", module_singleton, pp_instance, arg, 0)
     ELSE LET instance == InstanceForPPInstance(pp_instance)
          IN  IF instance = NULL
              THEN Done("Printing_Begin", module_singleton, pp_instance, arg, 0)
              ELSE IF q.null
              THEN Done("Printing_Begin", module_singleton, pp_instance, arg, 0)
              ELSE IF FormatSupported(q.arr, q.count, format)
              THEN \E r \in PrintBeginResults :
                     Forward("Printing_Begin", module_singleton, pp_instance, arg,
                             instance, "PrintBegin", r, r)
              ELSE Done("Printing_Begin", module_singleton, pp_instance, arg, 0)

Printing_PrintPages(module_singleton, pp_instance) ==
  /\ BrowserMayCall
  /\ IF module_singleton = NULL
     THEN Done("Printing_PrintPages", module_singleton, pp_instance, 0,
               pp_resource(DefaultResource))
     ELSE LET instance == InstanceForPPInstance(pp_instance)
          IN  IF instance = NULL
              THEN Done("Printing_PrintPages", module_singleton, pp_instance, 0,
                        pp_resource(DefaultResource))
              ELSE \E r \in Resources :
                     Forward("Printing_PrintPages", module_singleton, pp_instance, 0,
                             instance, "PrintPages", r, pp_resource(r))

Printing_End(module_singleton, pp_instance) ==
  /\ BrowserMayCall
  /\ IF module_singleton = NULL
     THEN Done("Printing_End", module_singleton, pp_instance, 0, "void")
     ELSE LET instance == InstanceForPPInstance(pp_instance)
          IN  IF instance = NULL
              THEN Done("Printing_End", module_singleton, pp_instance, 0, "void")
              ELSE Forward("Printing_End", module_singleton, pp_instance, 0,
                           instance, "PrintEnd", "void", "void")

\* ----------------------------------------------------------------- Module
GetInstanceInterfaceResult(interface_name) ==
  IF strcmp(interface_name, PPP_INSTANCE_INTERFACE) = 0
  THEN "&instance_interface"
  ELSE IF strcmp(interface_name, PPP_PRINTING_INTERFACE) = 0
  THEN "&printing_interface"
  ELSE "NULL"

GetInstanceInterface(interface_name) ==
  /\ BrowserMayCall
  /\ ev' = Ev("GetInstanceInterface", "done", TheModule, 0, interface_name, << >>,
              "void", GetInstanceInterfaceResult(interface_name))
  /\ UNCHANGED << moduleVars, current_instances_, objVars,
                  lastNew, stack, crashed >>

\* return get_browser_interface_(interface_name): a call through a NULL
\* function pointer when InternalInit has not stored one.
GetBrowserInterface(interface_name) ==
  /\ BrowserMayCall
  /\ IF get_browser_interface_ = NULL
     THEN /\ crashed' = TRUE
          /\ ev' = Ev("GetBrowserInterface", "crash", TheModule, 0, interface_name,
                      << >>, "void", "void")
          /\ UNCHANGED << moduleVars, current_instances_, objVars,
                          lastNew, stack >>
     ELSE /\ ev' = Ev("GetBrowserInterface", "done", TheModule, 0, interface_name,
                      << [obj |-> get_browser_interface_, m |-> interface_name] >>,
                      BrowserLookup(get_browser_interface_, interface_name),
                      BrowserLookup(get_browser_interface_, interface_name))
          /\ UNCHANGED << moduleVars, current_instances_, objVars,
                          lastNew, stack, crashed >>

PP_Modules == {3, 4}

\* The check of core_ is missing.
CoreMissing_Never(core) == FALSE

\* if (!core_) return false;
CoreMissing(core) == core = NULL

InternalInit(mod, get_browser_interface) ==
  /\ BrowserMayCall
  /\ pp_module_' = mod
  /\ get_browser_interface_' = get_browser_interface
  /\ LET core == BrowserLookup(get_browser_interface, PPB_CORE_INTERFACE)
         arg == [mod |-> mod, fn |-> get_browser_interface]
     IN  /\ core_' = core
         /\ IF CoreMissing(core)
            THEN ev' = Ev("InternalInit", "done", TheModule, 0, arg, << >>, "void", FALSE)
            ELSE \E r \in BOOLEAN :
                   ev' = Ev("InternalInit", "done", TheModule, 0, arg,
                            << [obj |-> NULL, m |-> "Init"] >>, r, r)
  /\ UNCHANGED << current_instances_, objVars, lastNew, stack,
                  crashed >>

\* ------------------------------------------------------------------- Next
\* The browser driving the PPP_Instance and PPP_Printing tables and asking
\* for them by name.
Next ==
  \/ TakeResult
  \/ \E m \in ModuleGetResults, h \in Handles : Instance_NewCall(m, h)
  \/ Instance_NewReturn
  \/ \E m \in ModuleGetResults, h \in Handles : Instance_DeleteCall(m, h)
  \/ Instance_DeleteReturn
  \/ \E m \in ModuleGetResults, h \in Handles : Instance_Initialize(m, h)
  \/ \E m \in ModuleGetResults, h \in Handles :
       Instance_HandleDocumentLoad(m, h)
  \/ \E m \in ModuleGetResults, h \in Handles : Instance_HandleEvent(m, h)
  \/ \E m \in ModuleGetResults, h \in Handles :
       Instance_GetInstanceObject(m, h)
  \/ \E m \in ModuleGetResults, h \in Handles : Instance_ViewChanged(m, h)
  \/ \E m \in ModuleGetResults, c \in {0, 1}, q \in QueryResults :
       Printing_QuerySupportedFormats(m, c, q)
  \/ \E m \in ModuleGetResults, h \in Handles, f \in PrintFormats,
        q \in QueryResults :
       Printing_Begin(m, h, f, q)
  \/ \E m \in ModuleGetResults, h \in Handles : Printing_PrintPages(m, h)
  \/ \E m \in ModuleGetResults, h \in Handles : Printing_End(m, h)

Spec == Init /\ [][Next]_vars

\* The browser initialising the module and the two sides looking interfaces
\* up by name, while instances come and go.
NextModule ==
  \/ TakeResult
  \/ \E mod \in PP_Modules, fn \in BrowserFns : InternalInit(mod, fn)
  \/ \E n \in InterfaceNames : GetInstanceInterface(n)
  \/ \E n \in InterfaceNames : GetBrowserInterface(n)
  \/ \E m \in ModuleGetResults, h \in Handles : Instance_NewCall(m, h)
  \/ Instance_NewReturn
  \/ \E m \in ModuleGetResults, h \in Handles : Instance_DeleteCall(m, h)
  \/ Instance_DeleteReturn

SpecModule == Init /\ [][NextModule]_vars

\* ================================================================= claims
ForwardOps ==
  { "Instance_Initialize", "Instance_HandleDocumentLoad",
    "Instance_HandleEvent", "Instance_GetInstanceObject",
    "Instance_ViewChanged", "Printing_PrintPages", "Printing_End" }

\* The Instance method each forwarding callback stands for.
CorrespondingMethod(op) ==
  CASE op = "Instance_Initialize" -> "Init"
    [] op = "Instance_HandleDocumentLoad" -> "HandleDocumentLoad"
    [] op = "Instance_HandleEvent" -> "HandleEvent"
    [] op = "Instance_GetInstanceObject" -> "GetInstanceObject"
    [] op = "Instance_ViewChanged" -> "ViewChanged"
    [] op = "Printing_PrintPages" -> "PrintPages"
    [] op = "Printing_End" -> "PrintEnd"

\* The C value that carries a method's C++ result across the ABI.
AsCValue(op, mres) ==
  CASE op = "Instance_GetInstanceObject" -> mres.var
    [] op = "Printing_PrintPages" -> mres.pp_resource_
    [] OTHER -> mres

DeleteFrames == {i \in 1..Len(stack) : stack[i].op = "Instance_Delete"}
NewFrames == {i \in 1..Len(stack) : stack[i].op = "Instance_New"}

\* The registry is ev.reg0 with h's entry removed and nothing else changed.
OnlyErased(h) ==
  /\ DOMAIN current_instances_ = DOMAIN ev.reg0 \ {h}
  /\ \A k \in DOMAIN current_instances_ : current_instances_[k] = ev.reg0[k]

\* The registry is ev.reg0 with h mapped to obj and nothing else changed.
OnlyAssigned(h, obj) ==
  /\ DOMAIN current_instances_ = DOMAIN ev.reg0 \cup {h}
  /\ current_instances_[h] = obj
  /\ \A k \in DOMAIN ev.reg0 \ {h} : current_instances_[k] = ev.reg0[k]

C3_PassThrough ==
  (ev.op \in ForwardOps /\ ev.known) =>
    /\ ev.phase = "done"
    /\ ev.calls = << [obj |-> lastNew[ev.h], m |-> CorrespondingMethod(ev.op)] >>
    /\ ev.ret = AsCValue(ev.op, ev.mres)
    /\ current_instances_ = ev.reg0

\* After an Instance_New, an Instance_Delete that destroyed the first object
\* and a second Instance_New, a callback on the handle of the second object
\* returned the method's value.
C3_Witness ==
  /\ ev.op = "Instance_GetInstanceObject"
  /\ ev.known
  /\ ev.ret = "object"
  /\ lastNew[ev.h] = 2
  /\ objState[1] = "destroyed"

\* ------------------------------------------------------------------- C4
\* What Instance_New(h) returns and what it does to the registry.
C4_Result ==
  /\ (ev.op = "Instance_New" /\ ev.phase = "done") =>
       /\ ev.module = NULL
       /\ ev.ret = FALSE
       /\ ev.calls = << >>
       /\ current_instances_ = ev.reg0
  /\ (ev.op = "Instance_New" /\ ev.phase = "call") =>
       /\ ev.module # NULL
       /\ current_instances_ = ev.reg0
  /\ (ev.op = "Instance_New" /\ ev.phase = "return") =>
       /\ ev.ret = (ev.mres # NULL)
       /\ ev.ret => OnlyAssigned(ev.h, ev.mres)
       /\ ~ev.ret => current_instances_ = ev.reg0

\* C4 as stated: Instance_New(h) returns true iff a module exists and
\* CreateInstance(h) returned an object, then maps h to exactly that object,
\* otherwise leaves the registry unchanged; other handles' entries are
\* unchanged; and h is not registered while CreateInstance(h) is running.
C4_AsStated ==
  /\ C4_Result
  /\ \A i \in NewFrames : stack[i].h \notin DOMAIN current_instances_

\* C4 amended: as stated, except for the last part: Instance_New(h) does not
\* register h while CreateInstance(h) is running; a handle becomes
\* registered only in the step in which a successful Instance_New of that
\* handle returns (so during CreateInstance(h) h is registered only if an
\* earlier or a nested Instance_New(h) registered it).
C4_RegistersOnSuccess ==
  /\ C4_Result
  /\ ev.op # "none" =>
       \A h \in DOMAIN current_instances_ :
         (h \notin DOMAIN ev.reg0 \/ ev.reg0[h] # current_instances_[h]) =>
           /\ ev.op = "Instance_New"
           /\ ev.phase = "return"
           /\ ev.h = h
           /\ ev.ret = TRUE
           /\ ev.mres = current_instances_[h]

\* Instance_New(h) succeeded while another handle was registered.
C4_Witness ==
  /\ ev.op = "Instance_New"
  /\ ev.phase = "return"
  /\ ev.ret = TRUE
  /\ \E k \in DOMAIN current_instances_ : k # ev.h

\* ------------------------------------------------------------------- C6
FailureDefault(op) ==
  CASE op \in { "Instance_Initialize", "Instance_HandleDocumentLoad",
                "Instance_HandleEvent" } -> FALSE
    [] op = "Instance_GetInstanceObject" -> "default"
    [] op \in {"Printing_Begin", "Printing_PrintPages"} -> 0
    [] op \in {"Instance_ViewChanged", "Printing_End", "Instance_Delete"} ->
         "void"

\* C6: with no module, or for a handle that is not registered, every
\* handle-taking callback invokes no method, leaves the registry unchanged
\* and returns its failure default; with no module,
\* Printing_QuerySupportedFormats sets the count to 0 and returns NULL.
C6_FailureDefaults ==
  /\ (/\ ev.op \in ForwardOps \cup {"Printing_Begin", "Instance_Delete"}
      /\ ev.phase # "return"
      /\ ~ev.known) =>
       /\ ev.phase = "done"
       /\ ev.calls = << >>
       /\ current_instances_ = ev.reg0
       /\ ev.ret = FailureDefault(ev.op)
  /\ (ev.op = "Printing_QuerySupportedFormats" /\ ev.module = NULL) =>
       /\ ev.calls = << >>
       /\ ev.ret = [null |-> TRUE, count |-> 0]
       /\ current_instances_ = ev.reg0

\* With a module present, a callback on a handle whose object has been
\* deleted returned its default while another handle was registered.
C6_Witness ==
  /\ ev.op = "Instance_GetInstanceObject"
  /\ ev.module # NULL
  /\ ~ev.known
  /\ lastNew[ev.h] # NULL
  /\ objState[lastNew[ev.h]] = "destroyed"
  /\ current_instances_ # << >>
  /\ ev.ret = "default"

\* ------------------------------------------------------------------- C7
\* C7: for a registered handle, Printing_Begin invokes PrintBegin (once, and
\* returns its result) iff the requested format is one of the first
\* format_count entries of a non-NULL list; otherwise it returns 0 and does
\* not invoke it.
C7_PrintBeginGate ==
  (ev.op = "Printing_Begin" /\ ev.known) =>
    /\ ev.phase = "done"
    /\ current_instances_ = ev.reg0
    /\ IF ~ev.arg.null /\ ev.arg.listed
       THEN /\ ev.calls = << [obj |-> ev.reg0[ev.h], m |-> "PrintBegin"] >>
            /\ ev.ret = ev.mres
       ELSE /\ ev.calls = << >>
            /\ ev.ret = 0

\* The requested format is in the list but not among its first format_count
\* entries: PrintBegin was not invoked.
C7_Witness ==
  /\ ev.op = "Printing_Begin"
  /\ ev.known
  /\ ev.arg.inList
  /\ ~ev.arg.listed
  /\ ev.calls = << >>

\* ------------------------------------------------------------------- C9
\* C9: every registry entry maps to a non-null object that is alive, so no
\* callback is forwarded to a destroyed object; Instance_Delete(h) removes
\* exactly h's entry and destroys exactly that object, is a no-op for an
\* unregistered handle, and no object is destroyed twice.
C9_RegistryLive ==
  /\ \A h \in DOMAIN current_instances_ :
       /\ current_instances_[h] \in Objects
       /\ objState[current_instances_[h]] = "live"
  /\ \A o \in Objects : destroyCount[o] <= 1
  /\ \A o \in Objects :
       objState[o] = "destroying" <=> \E i \in DeleteFrames : stack[i].obj = o
  /\ (ev.calls # << >> /\ ev.op \in ForwardOps \cup {"Printing_Begin"}) =>
       /\ ev.calls[1].obj \in Objects
       /\ objState[ev.calls[1].obj] = "live"
  /\ (ev.op = "Instance_Delete" /\ ev.phase = "call") =>
       /\ ev.known
       /\ OnlyErased(ev.h)
       /\ ev.calls = << [obj |-> ev.reg0[ev.h], m |-> "~Instance"] >>
  /\ (ev.op = "Instance_Delete" /\ ev.phase = "done") =>
       /\ ~ev.known
       /\ ev.calls = << >>
       /\ current_instances_ = ev.reg0
  /\ (ev.op = "Instance_Delete" /\ ev.phase = "return") =>
       /\ current_instances_ = ev.reg0
       /\ objState[ev.calls[1].obj] = "destroyed"

\* Instance_Delete of one handle ran inside the destructor of another
\* handle's object: two objects are in their destructors at once.
C9_Witness ==
  /\ ev.op = "Instance_Delete"
  /\ ev.phase = "call"
  /\ Cardinality(DeleteFrames) = 2
  /\ objState[1] = "destroying"
  /\ objState[2] = "destroying"

\* ------------------------------------------------------------------- C2
\* C2: GetInstanceInterface returns the PPP_Instance table exactly for the
\* name PPP_INSTANCE_INTERFACE, the PPP_Printing table exactly for
\* PPP_PRINTING_INTERFACE and NULL for every other name, whatever the
\* registry holds and whether or not InternalInit has run, and it changes no
\* module state.
C2_NameDispatch ==
  ev.op = "GetInstanceInterface" =>
    /\ ev.arg = PPP_INSTANCE_INTERFACE <=>
         (ev.ret # "NULL" /\ Head(Deref(ev.ret)) = "Instance_New")
    /\ ev.arg = PPP_PRINTING_INTERFACE <=>
         (ev.ret # "NULL"
          /\ Head(Deref(ev.ret)) = "Printing_QuerySupportedFormats")
    /\ ev.arg \notin {PPP_INSTANCE_INTERFACE, PPP_PRINTING_INTERFACE} <=>
         ev.ret = "NULL"
    /\ ev.calls = << >>
    /\ current_instances_ = ev.reg0
    /\ << pp_module_, get_browser_interface_, core_ >> = ev.mod0

\* A name that only extends PPP_INSTANCE_INTERFACE was looked up, after
\* InternalInit and with an instance registered, and got NULL.
C2_Witness ==
  /\ ev.op = "GetInstanceInterface"
  /\ ev.arg = <<1, 1, 1>>
  /\ ev.ret = "NULL"
  /\ get_browser_interface_ # NULL
  /\ current_instances_ # << >>

\* ------------------------------------------------------------------- C8
\* C8: InternalInit stores the module handle and the browser's function and
\* looks the core interface up through it; without a core interface it
\* returns false and never invokes Init(); with one it invokes Init() once
\* and returns its result.  GetBrowserInterface returns what the stored
\* browser function returns for the name.
C8_InternalInit ==
  /\ ev.op = "InternalInit" =>
       /\ pp_module_ = ev.arg.mod
       /\ get_browser_interface_ = ev.arg.fn
       /\ core_ = BrowserLookup(ev.arg.fn, PPB_CORE_INTERFACE)
       /\ core_ = NULL => (ev.ret = FALSE /\ ev.calls = << >>)
       /\ core_ # NULL =>
            /\ ev.calls = << [obj |-> NULL, m |-> "Init"] >>
            /\ ev.ret = ev.mres
       /\ current_instances_ = ev.reg0
  /\ (ev.op = "GetBrowserInterface" /\ ev.phase = "done") =>
       /\ ev.calls = << [obj |-> get_browser_interface_, m |-> ev.arg] >>
       /\ ev.ret = BrowserLookup(get_browser_interface_, ev.arg)
       /\ << pp_module_, get_browser_interface_, core_ >> = ev.mod0

\* InternalInit was given a browser function that has no core interface and
\* returned false, after an earlier InternalInit had found one.
C8_Witness ==
  /\ ev.op = "InternalInit"
  /\ ev.mod0[3] # NULL
  /\ core_ = NULL
  /\ ev.ret = FALSE

====
